---- MODULE Spec2Model ----
(***************************************************************************)
(* A model of the SCons Swift tool (sconscontrib/SCons/Tool/swift/swift.py) *)
(*                                                                         *)
(*   SpecEmit : _swift_emitter applied to an environment set up by         *)
(*              generate() and then changed by the user                    *)
(*   SpecScan : swift_scan_func applied to a source text, a module search  *)
(*              path and a file system                                     *)
(*   SpecGen  : generate(), with its external probes                       *)
(*                                                                         *)
(* Python strings are TLA+ strings; s[i:j] is SubSeq, + is \o.             *)
(***************************************************************************)
EXTENDS Naturals, Sequences, FiniteSets, TLC

VARIABLES
    pc,          \* position of the modelled call
    env,         \* the construction environment: variable name -> value
    env0,        \* SpecGen: the environment generate() was called with
    sdkProbe,    \* SpecGen: outcome of `xcrun --show-sdk-path`
    toolProbe,   \* SpecGen: outcome of `xcrun --find swift`
    verProbe,    \* SpecGen: outcome of `swiftc --version`
    warnings,    \* SpecGen: messages handed to SCons.Warnings.warn
    target,      \* SpecEmit: the target list handed to the emitter
    returned,    \* SpecEmit: the target list the emitter returned
    sideEffects, \* SpecEmit: nodes passed to env.SideEffect, in call order
    cleaned,     \* SpecEmit: nodes passed to env.Clean
    lines,       \* SpecScan: the source file, line by line
    path,        \* SpecScan: the module search path (a tuple of directories)
    files,       \* SpecScan: the paths that exist on disk
    matched,     \* SpecScan: every name captured by import_re, in order
    deps         \* SpecScan: the list swift_scan_func returned

vars == <<pc, env, env0, sdkProbe, toolProbe, verProbe, warnings, target, returned,
          sideEffects, cleaned, lines, path, files, matched, deps>>

genVars  == <<env0, sdkProbe, toolProbe, verProbe, warnings>>
emitVars == <<target, returned, sideEffects, cleaned>>
scanVars == <<lines, path, files, matched, deps>>

----------------------------------------------------------------------------
(* Strings *)

\* s[i:i+1], 1-based: the character at i, "" outside the string
At(s, i) == IF 1 <= i /\ i <= Len(s) THEN SubSeq(s, i, i) ELSE ""

Range(q) == { q[i] : i \in 1..Len(q) }

Max(S) == CHOOSE m \in S : \A n \in S : n <= m

Digits == {"0", "1", "2", "3", "4", "5", "6", "7", "8", "9"}

\* str.rfind(c), 1-based; 0 when c does not occur
RFind(s, c) == Max({0} \cup { i \in 1..Len(s) : At(s, i) = c })

\* str.isdigit(): non-empty and all digits
IsDigit(s) == Len(s) > 0 /\ \A i \in 1..Len(s) : At(s, i) \in Digits

StartsWith(s, p) == Len(s) >= Len(p) /\ SubSeq(s, 1, Len(p)) = p

EndsWith(s, p) == Len(s) >= Len(p) /\ SubSeq(s, Len(s) - Len(p) + 1, Len(s)) = p

\* SCons.Util.splitext: an extension is real only if it follows the last
\* separator and is not all digits
splitext(p) ==
    LET sep == RFind(p, "/")
        dot == RFind(p, ".")
    IN  IF dot > sep /\ ~IsDigit(SubSeq(p, dot + 1, Len(p)))
        THEN <<SubSeq(p, 1, dot - 1), SubSeq(p, dot, Len(p))>>
        ELSE <<p, "">>

RECURSIVE RStripSlash(_)
RStripSlash(s) ==
    IF Len(s) > 0 /\ At(s, Len(s)) = "/"
    THEN RStripSlash(SubSeq(s, 1, Len(s) - 1))
    ELSE s

\* os.path.dirname (posixpath)
dirname(p) ==
    LET head == SubSeq(p, 1, RFind(p, "/"))
    IN  IF RStripSlash(head) = "" THEN head ELSE RStripSlash(head)

\* os.path.basename (posixpath)
basename(p) == SubSeq(p, RFind(p, "/") + 1, Len(p))

\* os.path.join(a, b) (posixpath)
join(a, b) ==
    IF StartsWith(b, "/") THEN b
    ELSE IF a = "" \/ EndsWith(a, "/") THEN a \o b
    ELSE a \o "/" \o b

----------------------------------------------------------------------------
(* The construction environment *)

\* env[k] = v
Set(e, k, v) == (k :> v) @@ e

\* env.get(k, d)
Get(e, k, d) == IF k \in DOMAIN e THEN e[k] ELSE d

\* truth of env.get(k) for a boolean-valued variable (None when unset)
GetFlag(e, k) == k \in DOMAIN e /\ e[k] = TRUE

\* truth of env.get(k) for a string-valued variable (None or "" are false)
GetText(e, k) == k \in DOMAIN e /\ e[k] # ""

----------------------------------------------------------------------------
(* generate(): construction variables, lines 156-305 *)

None == "<None>"

SwiftSuffixes == <<".swift">>

compilers == <<"swiftc">>

\* env.Detect(progs): the first of progs found on the PATH, else None
Detect(found, progs) ==
    IF \E i \in 1..Len(progs) : progs[i] \in found
    THEN progs[CHOOSE i \in 1..Len(progs) :
                   progs[i] \in found /\ \A j \in 1..(i - 1) : progs[j] \notin found]
    ELSE None

\* `x or y` for a Detect result
OrElse(x, y) == IF x = None THEN y ELSE x

\* SCons.Util.CLVar(s) for the two arguments generate() uses
CLVar(s) == IF s = "" THEN <<>> ELSE <<s>>

\* env.AppendUnique(k=vals) on a list-valued variable
AppendUnique(e, k, vals) ==
    LET old == Get(e, k, <<>>)
    IN  Set(e, k, old \o SelectSeq(vals, LAMBDA v : v \notin Range(old)))

\* lines 178-276: the assignments env[k] = v, in source order
Assignments == <<
    <<"SWIFTFLAGS", CLVar("")>>,
    <<"SWIFTPATH", CLVar("")>>,
    <<"SWIFTMODULEPATH", CLVar("")>>,
    <<"SWIFTMODULEPREFIX", "-I ">>,
    <<"SWIFTMODULESUFFIX", "">>,
    <<"_SWIFTMODULEFLAGS", "$( ${_concat(SWIFTMODULEPREFIX, SWIFTMODULEPATH, SWIFTMODULESUFFIX, __env__, RDirs, TARGET, SOURCE)} $)">>,
    <<"SWIFTIMPORTS", CLVar("")>>,
    <<"SWIFTIMPORTPREFIX", "-import-objc-header ">>,
    <<"SWIFTIMPORTSUFFIX", "">>,
    <<"_SWIFTIMPORTFLAGS", "${_concat(SWIFTIMPORTPREFIX, SWIFTIMPORTS, SWIFTIMPORTSUFFIX, __env__)}">>,
    <<"SWIFT_CXX_INTEROP", FALSE>>,
    <<"SWIFT_EMIT_CXX_HEADER", FALSE>>,
    <<"SWIFT_CXX_HEADER_NAME", "">>,
    <<"_SWIFT_CXX_INTEROP_FLAG", "${SWIFT_CXX_INTEROP and \"-cxx-interoperability-mode=default\" or \"\"}">>,
    <<"_SWIFT_EMIT_CXX_HEADER_FLAG", "${SWIFT_EMIT_CXX_HEADER and \"-emit-clang-header-path $SWIFT_CXX_HEADER_NAME\" or \"\"}">>,
    <<"SWIFTMODULENAME", "">>,
    <<"SWIFTMODULESUFFIX", ".swiftmodule">>,
    <<"SWIFTDOCSUFFIX", ".swiftdoc">>,
    <<"SWIFTSOURCEINFOSUFFIX", ".swiftsourceinfo">>,
    <<"INCPREFIX", "-I ">>,
    <<"INCSUFFIX", "">>,
    <<"_SWIFTINCFLAGS", "$( ${_concat(INCPREFIX, SWIFTPATH, INCSUFFIX, __env__, RDirs, TARGET, SOURCE)} $)">>,
    <<"FRAMEWORKPREFIX", "-F ">>,
    <<"FRAMEWORKSUFFIX", "">>,
    <<"_SWIFTFRAMEWORKPATH", "$( ${_concat(FRAMEWORKPREFIX, FRAMEWORKPATH, FRAMEWORKSUFFIX, __env__, RDirs, TARGET, SOURCE)} $)">>,
    <<"SWIFTLIBDIRPREFIX", "-L ">>,
    <<"SWIFTLIBDIRSUFFIX", "">>,
    <<"_SWIFTLIBFLAGS", "$( ${_concat(SWIFTLIBDIRPREFIX, LIBPATH, SWIFTLIBDIRSUFFIX, __env__, RDirs, TARGET, SOURCE)} $)">>,
    <<"_SWIFTCOMCOM", "$_SWIFTINCFLAGS $_SWIFTMODULEFLAGS $_SWIFTFRAMEWORKPATH $_SWIFTLIBFLAGS $_SWIFT_CXX_INTEROP_FLAG $_SWIFT_EMIT_CXX_HEADER_FLAG $_SWIFTIMPORTFLAGS $_SWIFTOPTFLAG $_SWIFTWMOFLAG">>,
    <<"SWIFTCOM", "cd ${TARGET.dir} && $SWIFT -c -parse-as-library ${SOURCES.abspath} -o ${TARGET.file} $SWIFTFLAGS $_SWIFTCOMCOM">>,
    <<"SWIFTSH", "$SWIFT">>,
    <<"SWIFTSHFLAGS", CLVar("$SWIFTFLAGS")>>,
    <<"SWIFTSHCOM", "cd ${TARGET.dir} && $SWIFTSH -c -parse-as-library ${SOURCES.abspath} -o ${TARGET.file} -emit-object $SWIFTSHFLAGS $_SWIFTCOMCOM">>,
    <<"SWIFTOBJSUFFIX", ".o">>,
    <<"SWIFTSHOBSUFFIX", ".os">>,
    <<"SWIFTWMO", FALSE>>,
    <<"_SWIFTWMOFLAG", "${SWIFTWMO and \"-whole-module-optimization\" or \"\"}">>,
    <<"SWIFTLIBCOM", "$SWIFT -emit-library -o $TARGET $SOURCES $SWIFTLIBFLAGS $_SWIFTCOMCOM">>,
    <<"SWIFTLIBFLAGS", CLVar("")>>,
    <<"SWIFTMODULECOM", "$SWIFT -emit-module -module-name $SWIFTMODULENAME -o $TARGET $SOURCES $SWIFTMODULEFLAGS $_SWIFTCOMCOM">>,
    <<"SWIFTMODULEFLAGS", CLVar("")>>,
    <<"SWIFTEXECOM", "$SWIFT -o $TARGET $SOURCES $SWIFTEXEFLAGS $_SWIFTCOMCOM">>,
    <<"SWIFTEXEFLAGS", CLVar("")>> >>

RECURSIVE Assign(_, _, _)
Assign(e, as, i) ==
    IF i > Len(as) THEN e ELSE Assign(Set(e, as[i][1], as[i][2]), as, i + 1)

\* lines 156-305, `found` being the programs env.Detect can find
generate_vars(e, found) ==
    LET e1 == Set(e, "SCANNERS", Get(e, "SCANNERS", <<>>) \o <<"SwiftScanner">>)
        e2 == IF "SWIFT" \notin DOMAIN e1
              THEN Set(e1, "SWIFT", OrElse(Detect(found, compilers), compilers[1]))
              ELSE e1
        e3 == Assign(e2, Assignments, 1)
        e4 == Set(e3, "SWIFTPM", Detect(found, <<"swift-build", "swift">>))
        e5 == Set(e4, "SWIFTPMFLAGS", CLVar(""))
        e6 == Set(e5, "SWIFTPMBUILDCOM", "$SWIFTPM build $SWIFTPMFLAGS")
        e7 == Set(e6, "SWIFTPMTESTCOM", "$SWIFTPM test $SWIFTPMFLAGS")
    IN  Set(e7, "BUILDERS",
            Get(e7, "BUILDERS", {}) \cup {"SwiftModule", "SwiftLibrary", "SwiftProgram"})

----------------------------------------------------------------------------
(* _swift_emitter, lines 90-120 *)

\* env.File(p): a node is identified by its path
File(p) == p

\* The header block (lines 102-111) outside the C++ interop test.
swift_emitter_header_ungated(tgt, e) ==
    LET base == splitext(tgt[1])[1]
        header_name == Get(e, "SWIFT_CXX_HEADER_NAME", base \o "-Swift.h")
        header_dir == dirname(tgt[1])
        cxx_header == IF header_dir # ""
                      THEN File(join(header_dir, header_name))
                      ELSE File(header_name)
        info == IF GetFlag(e, "SWIFT_CXX_INTEROP")
                THEN <<File(base \o ".swiftsourceinfo")>> ELSE <<>>
        hdr == IF GetFlag(e, "SWIFT_EMIT_CXX_HEADER") THEN <<cxx_header>> ELSE <<>>
        mods == IF GetText(e, "SWIFTMODULENAME")
                THEN <<File(base \o ".swiftmodule"), File(base \o ".swiftdoc")>>
                ELSE <<>>
    IN  [target |-> tgt, side |-> info \o hdr \o mods, clean |-> hdr]

\* The emitter's result: the target list it returns, the nodes it hands to
\* env.SideEffect in call order, and the nodes it hands to env.Clean.
swift_emitter(tgt, e) ==
    LET base == splitext(tgt[1])[1]
        header_name == Get(e, "SWIFT_CXX_HEADER_NAME", base \o "-Swift.h")
        header_dir == dirname(tgt[1])
        cxx_header == IF header_dir # ""
                      THEN File(join(header_dir, header_name))
                      ELSE File(header_name)
        hdr == IF GetFlag(e, "SWIFT_EMIT_CXX_HEADER") THEN <<cxx_header>> ELSE <<>>
        interop == IF GetFlag(e, "SWIFT_CXX_INTEROP")
                   THEN <<File(base \o ".swiftsourceinfo")>> \o hdr
                   ELSE <<>>
        mods == IF GetText(e, "SWIFTMODULENAME")
                THEN <<File(base \o ".swiftmodule"), File(base \o ".swiftdoc")>>
                ELSE <<>>
    IN  [target |-> tgt,
         side   |-> interop \o mods,
         clean  |-> IF GetFlag(e, "SWIFT_CXX_INTEROP") THEN hdr ELSE <<>>]

----------------------------------------------------------------------------
(* External probes: subprocess.run(..., timeout=5) *)

\* A probe ends in one of: exit status 0 ("ok"), a non-zero exit status,
\* subprocess.TimeoutExpired, FileNotFoundError, or any other exception.
Failures == {"nonzero", "timeout", "missing", "error"}

Outcome(kind, out) == [kind |-> kind, out |-> out]

FailedOutcomes == { Outcome(k, "") : k \in Failures }

Whitespace == {" ", "\n", "\t", "\r"}

\* str.strip()
RECURSIVE Strip(_)
Strip(s) ==
    IF Len(s) > 0 /\ At(s, 1) \in Whitespace THEN Strip(SubSeq(s, 2, Len(s)))
    ELSE IF Len(s) > 0 /\ At(s, Len(s)) \in Whitespace
         THEN Strip(SubSeq(s, 1, Len(s) - 1))
    ELSE s

\* str.find(sub, from i), 1-based; 0 when sub does not occur
Find(s, sub, i) ==
    LET hits == { j \in i..(Len(s) - Len(sub) + 1) : SubSeq(s, j, j + Len(sub) - 1) = sub }
    IN  IF hits = {} THEN 0 ELSE CHOOSE j \in hits : \A k \in hits : j <= k

\* str.replace(old, new), old non-empty
RECURSIVE Replace(_, _, _)
Replace(s, old, new) ==
    LET j == Find(s, old, 1)
    IN  IF j = 0 THEN s
        ELSE SubSeq(s, 1, j - 1) \o new
             \o Replace(SubSeq(s, j + Len(old), Len(s)), old, new)

\* the index of the last character of the run of digits that starts at i
\* (i - 1 when s[i] is no digit)
RECURSIVE DigitRunEnd(_, _)
DigitRunEnd(s, i) ==
    IF i <= Len(s) /\ At(s, i) \in Digits THEN DigitRunEnd(s, i + 1) ELSE i - 1

\* int(s) for a string of digits
RECURSIVE ParseInt(_)
ParseInt(s) ==
    IF s = "" THEN 0
    ELSE 10 * ParseInt(SubSeq(s, 1, Len(s) - 1))
         + (CHOOSE n \in 0..9 : At("0123456789", n + 1) = At(s, Len(s)))

\* \d+\.\d+(?:\.\d+)? matched at i: the index of the match's last character,
\* 0 when there is no match
VersionEnd(s, i) ==
    LET a == DigitRunEnd(s, i)
        b == DigitRunEnd(s, a + 2)
        c == DigitRunEnd(s, b + 2)
    IN  IF a < i \/ At(s, a + 1) # "." \/ b < a + 2 THEN 0
        ELSE IF At(s, b + 1) = "." /\ c >= b + 2 THEN c
        ELSE b

----------------------------------------------------------------------------
(* _detect_swift_version, lines 123-150 *)

Returned(v, w) == [raised |-> FALSE, value |-> v, warning |-> w]

Raised == [raised |-> TRUE, value |-> None, warning |-> <<>>]

\* re.search(r'Swift version (\d+\.\d+(?:\.\d+)?)', stdout).group(1), or None
SearchVersion(stdout) ==
    LET lead == "Swift version "
        hits == { i \in 1..(Len(stdout) - Len(lead) + 1) :
                    /\ SubSeq(stdout, i, i + Len(lead) - 1) = lead
                    /\ VersionEnd(stdout, i + Len(lead)) > 0 }
    IN  IF hits = {} THEN None
        ELSE LET i == CHOOSE j \in hits : \A k \in hits : j <= k
             IN  SubSeq(stdout, i + Len(lead), VersionEnd(stdout, i + Len(lead)))

\* stdout.split("\n")[0]
FirstLine(stdout) ==
    LET nl == Find(stdout, "\n", 1)
    IN  IF nl = 0 THEN stdout ELSE SubSeq(stdout, 1, nl - 1)

\* FileNotFoundError escapes: no handler for it and the last handler narrowed.
detect_swift_version_unhandled(o) ==
    CASE o.kind = "ok" ->
           IF SearchVersion(o.out) # None THEN Returned(SearchVersion(o.out), <<>>)
           ELSE IF Find(o.out, "Swift version", 1) > 0
                THEN Returned(FirstLine(o.out), <<>>)
           ELSE Returned(None, <<>>)
      [] o.kind = "nonzero" -> Returned(None, <<>>)
      [] o.kind = "timeout" -> Returned(None, <<"Swift version detection timed out">>)
      [] o.kind = "missing" -> Raised
      [] o.kind = "error"   -> Returned(None, <<"Failed to detect Swift version">>)

\* The version string or None, whether an exception left the function, and
\* the warning handed to SCons.Warnings.warn.
detect_swift_version(o) ==
    CASE o.kind = "ok" ->
           IF SearchVersion(o.out) # None THEN Returned(SearchVersion(o.out), <<>>)
           ELSE IF Find(o.out, "Swift version", 1) > 0
                THEN Returned(FirstLine(o.out), <<>>)
           ELSE Returned(None, <<>>)
      [] o.kind = "nonzero" -> Returned(None, <<>>)
      [] o.kind = "timeout" -> Returned(None, <<"Swift version detection timed out">>)
      [] o.kind = "missing" -> Returned(None, <<"Swift compiler not found">>)
      [] o.kind = "error"   -> Returned(None, <<"Failed to detect Swift version">>)

----------------------------------------------------------------------------
(* generate(): platform-specific flags, lines 307-361 *)

\* sdk and tool are the outcomes the two xcrun probes would have; ranSdk and
\* ranTool tell which of them generate() started.  `subprocess` is bound in
\* generate() only by the import at line 313, inside the SDKROOT test; the
\* toolchain probe is wholly inside try/except (lines 330-345).
generate_platform(e, sdk, tool) ==
    IF e["PLATFORM"] = "darwin" THEN
        LET e1 == Set(e, "SWIFTSHLIBSUFFIX", ".dylib")
            e2 == AppendUnique(e1, "SWIFTFLAGS", <<"-sdk", "$SDKROOT">>)
            ranSdk == ~GetText(e2, "SDKROOT")
            e3 == IF ranSdk /\ sdk.kind = "ok"
                  THEN Set(e2, "SDKROOT", Strip(sdk.out)) ELSE e2
            ranTool == GetFlag(e3, "SWIFT_CXX_INTEROP")
            swift_lib_dir == Replace(Strip(tool.out), "/bin/swift", "/lib/swift/macosx")
            e4 == IF ranTool /\ ranSdk /\ tool.kind = "ok"
                  THEN AppendUnique(AppendUnique(e3, "LIBPATH", <<swift_lib_dir>>),
                                    "LIBS", <<"swiftCore">>)
                  ELSE e3
        IN  [env |-> e4, ranSdk |-> ranSdk, ranTool |-> ranTool /\ ranSdk]
    ELSE IF e["PLATFORM"] = "win32" THEN
        LET e1 == Set(e, "SWIFTSHLIBSUFFIX", ".dll")
            e2 == Set(e1, "SWIFTOBJSUFFIX", ".obj")
            e3 == Set(e2, "SWIFTSHOBSUFFIX", ".obj")
            e4 == AppendUnique(e3, "SWIFTFLAGS", <<"-sdk", Get(e3, "SDKROOT", "Windows.sdk")>>)
        IN  [env |-> e4, ranSdk |-> FALSE, ranTool |-> FALSE]
    ELSE
        LET e1 == Set(e, "SWIFTSHLIBSUFFIX", ".so")
            e2 == AppendUnique(e1, "SWIFTFLAGS", <<"-sdk", Get(e1, "SDKROOT", "/")>>)
            e3 == IF GetFlag(e2, "SWIFT_CXX_INTEROP")
                  THEN AppendUnique(e2, "LIBS", <<"swiftCore", "dispatch", "Foundation">>)
                  ELSE e2
        IN  [env |-> e3, ranSdk |-> FALSE, ranTool |-> FALSE]

----------------------------------------------------------------------------
(* generate(): version-specific flags, lines 363-391 *)

\* re.match(r'(\d+)\.(\d+)(?:\.(\d+))?', version): <<major, minor>>, or <<>>
MatchVersion(version) ==
    LET a == DigitRunEnd(version, 1)
        b == DigitRunEnd(version, a + 2)
    IN  IF a < 1 \/ At(version, a + 1) # "." \/ b < a + 2 THEN <<>>
        ELSE <<ParseInt(SubSeq(version, 1, a)), ParseInt(SubSeq(version, a + 2, b))>>

\* lines 375-391
version_features(e, major, minor) ==
    LET e1 == IF major >= 5
              THEN Set(Set(e, "SWIFT_ASYNC_SUPPORT", TRUE), "_SWIFT_ASYNC_FLAG",
                       "${SWIFT_ASYNC_SUPPORT and \"-enable-experimental-concurrency\" or \"\"}")
              ELSE e
        e2 == IF major >= 5 /\ minor >= 5 THEN Set(e1, "_SWIFT_ASYNC_FLAG", "") ELSE e1
        e3 == IF major >= 5 /\ minor >= 7 THEN Set(e2, "SWIFT_REGEX_SUPPORT", TRUE) ELSE e2
    IN  IF major >= 6
        THEN Set(Set(e3, "SWIFT_STRICT_CONCURRENCY", TRUE), "_SWIFT_CONCURRENCY_FLAG",
                 "${SWIFT_STRICT_CONCURRENCY and \"-strict-concurrency=complete\" or \"\"}")
        ELSE e3

\* lines 364-391: an exception leaving _detect_swift_version leaves generate()
generate_version(e, ver) ==
    LET r == detect_swift_version(ver)
        version == r.value
        e1 == Set(e, "SWIFTVERSION", version)
        mm == MatchVersion(version)
    IN  IF r.raised THEN [raised |-> TRUE, env |-> e, warning |-> r.warning]
        ELSE IF version = None \/ version = ""
             THEN [raised |-> FALSE, env |-> e, warning |-> r.warning]
        ELSE [raised |-> FALSE,
              env |-> IF mm = <<>> THEN e1 ELSE version_features(e1, mm[1], mm[2]),
              warning |-> r.warning]

----------------------------------------------------------------------------
(* SpecGen: generate(env) *)

Platforms == {"darwin", "win32", "posix"}

Programs == {"swiftc", "swift-build", "swift"}

\* An environment before the tool is loaded: PLATFORM, and possibly SDKROOT,
\* SWIFT, SWIFT_CXX_INTEROP and SWIFTVERSION set by the user beforehand.
Prior(p, sdk, swift, interop, version) ==
    LET keys == {"PLATFORM"}
                \cup (IF sdk # None THEN {"SDKROOT"} ELSE {})
                \cup (IF swift # None THEN {"SWIFT"} ELSE {})
                \cup (IF interop THEN {"SWIFT_CXX_INTEROP"} ELSE {})
                \cup (IF version # None THEN {"SWIFTVERSION"} ELSE {})
    IN  [k \in keys |->
            CASE k = "PLATFORM" -> p
              [] k = "SDKROOT" -> sdk
              [] k = "SWIFT" -> swift
              [] k = "SWIFT_CXX_INTEROP" -> TRUE
              [] k = "SWIFTVERSION" -> version]

PriorEnvs ==
    { Prior(p, sdk, swift, interop, version) :
        p \in Platforms, sdk \in {None, "", "/opt/sdk"},
        swift \in {None, "/opt/bin/swiftc"}, interop \in BOOLEAN,
        version \in {None, "5.0"} }

SdkOutcomes ==
    FailedOutcomes \cup {Outcome("ok", "/Xcode/SDKs/MacOSX.sdk\n")}

ToolOutcomes ==
    FailedOutcomes \cup {Outcome("ok", "/Xcode/usr/bin/swift\n")}

VersionOutputs ==
    { "Apple Swift version 5.9.2 (swiftlang)\nTarget: arm64\n",
      "Swift version 6.0\n",
      "Swift version 5.10\n",
      "Swift version 5.4\n",
      "Swift version 4.2.1\n",
      "Swift version main-snapshot\nTarget: x86_64\n",
      "swiftc 5.9\n" }

VerOutcomes ==
    FailedOutcomes \cup { Outcome("ok", out) : out \in VersionOutputs }

ModulePaths == { <<"mods">>, <<"mods", "build/lib">> }

IdleGen ==
    /\ env0 = << >>
    /\ sdkProbe = "none"
    /\ toolProbe = "none"
    /\ verProbe = "none"
    /\ warnings = << >>

IdleEmit ==
    /\ target = << >>
    /\ returned = << >>
    /\ sideEffects = << >>
    /\ cleaned = << >>

IdleScan ==
    /\ lines = << >>
    /\ path = << >>
    /\ files = {}
    /\ matched = << >>
    /\ deps = << >>

InitGen ==
    /\ pc = "start"
    /\ env0 \in PriorEnvs
    /\ env = env0
    /\ sdkProbe = "none"
    /\ toolProbe = "none"
    /\ verProbe = "none"
    /\ warnings = << >>
    /\ IdleEmit
    /\ IdleScan

\* lines 156-305
GenVars ==
    /\ pc = "start"
    /\ \E found \in SUBSET Programs : env' = generate_vars(env, found)
    /\ pc' = "vars"
    /\ UNCHANGED <<env0, sdkProbe, toolProbe, verProbe, warnings, emitVars, scanVars>>

\* lines 307-361
GenPlatform ==
    /\ pc = "vars"
    /\ \E sdk \in SdkOutcomes, tool \in ToolOutcomes :
          LET r == generate_platform(env, sdk, tool)
          IN  /\ env' = r.env
              /\ sdkProbe' = IF r.ranSdk THEN sdk.kind ELSE "none"
              /\ toolProbe' = IF r.ranTool THEN tool.kind ELSE "none"
    /\ pc' = "platform"
    /\ UNCHANGED <<env0, verProbe, warnings, emitVars, scanVars>>

\* lines 363-391
GenVersion ==
    /\ pc = "platform"
    /\ \E ver \in VerOutcomes :
          LET r == generate_version(env, ver)
          IN  /\ env' = r.env
              /\ verProbe' = ver.kind
              /\ warnings' = warnings \o r.warning
              /\ pc' = IF r.raised THEN "raised" ELSE "done"
    /\ UNCHANGED <<env0, sdkProbe, toolProbe, emitVars, scanVars>>

\* the SConstruct sets the module search path after loading the tool
SetModulePath ==
    /\ pc = "done"
    /\ \E p \in ModulePaths : env' = Set(env, "SWIFTMODULEPATH", p)
    /\ pc' = "configured"
    /\ UNCHANGED <<genVars, emitVars, scanVars>>

NextGen == GenVars \/ GenPlatform \/ GenVersion \/ SetModulePath

SpecGen == InitGen /\ [][NextGen]_vars

----------------------------------------------------------------------------
(* SpecEmit: _swift_emitter(target, source, env) *)

\* generate() on platform p with no tool installed
Generated(p) ==
    LET missing == Outcome("missing", "")
        e1 == generate_vars([k \in {"PLATFORM"} |-> p], {})
        e2 == generate_platform(e1, missing, missing).env
    IN  generate_version(e2, missing).env

\* what a SConstruct sets on the variables the emitter reads
Settings ==
    ({"SWIFT_CXX_INTEROP", "SWIFT_EMIT_CXX_HEADER"} \X BOOLEAN)
    \cup ({"SWIFT_CXX_HEADER_NAME"} \X {"", "Lib-Swift.h", "include/api.h"})
    \cup ({"SWIFTMODULENAME"} \X {"", "Lib"})

Targets == { "lib.o", "build/lib.o", "build/v1.2/net.io.os", "out/lib" }

InitEmit ==
    /\ pc = "configure"
    /\ env \in { Generated(p) : p \in Platforms }
    /\ IdleGen
    /\ IdleEmit
    /\ IdleScan

SetVar ==
    /\ pc = "configure"
    /\ \E kv \in Settings : env' = Set(env, kv[1], kv[2])
    /\ UNCHANGED <<pc, genVars, emitVars, scanVars>>

Emit ==
    /\ pc = "configure"
    /\ \E t \in Targets :
          LET r == swift_emitter(<<t>>, env)
          IN  /\ target' = <<t>>
              /\ returned' = r.target
              /\ sideEffects' = r.side
              /\ cleaned' = r.clean
    /\ pc' = "emitted"
    /\ UNCHANGED <<env, genVars, scanVars>>

NextEmit == SetVar \/ Emit

SpecEmit == InitEmit /\ [][NextEmit]_vars

----------------------------------------------------------------------------
(* Properties of _swift_emitter, under SpecEmit *)

\* every output the emitter declared: the returned targets, then the
\* side effects in the order they were registered
Outputs == returned \o sideEffects

\* the outputs the emitter declares for the same target under environment e
OutputsUnder(e) ==
    LET r == swift_emitter(target, e) IN r.target \o r.side

\* <base>: the primary target without its suffix
TargetBase == splitext(target[1])[1]

Sidecars ==
    { TargetBase \o ".swiftmodule", TargetBase \o ".swiftdoc",
      TargetBase \o ".swiftsourceinfo" }

\* C1: with SWIFTMODULENAME non-empty the declared outputs contain all three
\* module sidecars and are exactly three more than with SWIFTMODULENAME
\* empty; the sidecars are declared all three together or not at all.
C1_ModuleSidecarsTogether ==
    pc = "emitted" =>
        /\ GetText(env, "SWIFTMODULENAME") =>
              /\ Sidecars \subseteq Range(Outputs)
              /\ Cardinality(Range(Outputs))
                   = Cardinality(Range(OutputsUnder(Set(env, "SWIFTMODULENAME", "")))) + 3
        /\ Sidecars \cap Range(Outputs) \in {{}, Sidecars}

\* C2 as stated: with SWIFT_CXX_INTEROP false the emitter declares exactly
\* one output, the primary target, whatever the other variables are.
C2_NoInteropOnlyPrimary ==
    pc = "emitted" /\ ~GetFlag(env, "SWIFT_CXX_INTEROP") =>
        /\ returned = target
        /\ sideEffects = << >>
        /\ Outputs = <<target[1]>>

\* C2 amended: with SWIFT_CXX_INTEROP false and SWIFTMODULENAME empty the
\* emitter returns the target list unchanged and registers no side effect,
\* whatever SWIFT_EMIT_CXX_HEADER and SWIFT_CXX_HEADER_NAME are.
C2_NoInteropNoModuleOnlyPrimary ==
    pc = "emitted" /\ ~GetFlag(env, "SWIFT_CXX_INTEROP")
                   /\ ~GetText(env, "SWIFTMODULENAME") =>
        /\ returned = target
        /\ sideEffects = << >>
        /\ cleaned = << >>
        /\ Outputs = <<target[1]>>

\* C2 witness: the emitter ran with interop off, no module name, header
\* emission requested and an explicit header name.
C2_Witness ==
    /\ pc = "emitted"
    /\ ~GetFlag(env, "SWIFT_CXX_INTEROP")
    /\ ~GetText(env, "SWIFTMODULENAME")
    /\ GetFlag(env, "SWIFT_EMIT_CXX_HEADER")
    /\ GetText(env, "SWIFT_CXX_HEADER_NAME")

\* C3: with a module name, C++ interop and header emission the outputs are,
\* in order, the primary target, .swiftmodule, .swiftdoc, .swiftsourceinfo
\* and last the interop header; without header emission the outputs before
\* the header are the same, in the same order.
C3_FixedOutputOrder ==
    pc = "emitted" /\ GetText(env, "SWIFTMODULENAME")
                   /\ GetFlag(env, "SWIFT_CXX_INTEROP")
                   /\ GetFlag(env, "SWIFT_EMIT_CXX_HEADER") =>
        /\ Len(Outputs) = 5
        /\ SubSeq(Outputs, 1, 4) = <<target[1], TargetBase \o ".swiftmodule",
                                     TargetBase \o ".swiftdoc",
                                     TargetBase \o ".swiftsourceinfo">>
        /\ Outputs[5] \in Range(cleaned)
        /\ SubSeq(Outputs, 1, 4) = OutputsUnder(Set(env, "SWIFT_EMIT_CXX_HEADER", FALSE))

\* C4: in an environment set up by generate(), with C++ interop and header
\* emission on, the header declared for <dir>/<base>.o is <dir>/<base>-Swift.h
\* when SWIFT_CXX_HEADER_NAME was left empty, and <dir>/<name> when it was set
\* to the non-empty <name>.
C4_DefaultHeaderName ==
    pc = "emitted" /\ GetFlag(env, "SWIFT_CXX_INTEROP")
                   /\ GetFlag(env, "SWIFT_EMIT_CXX_HEADER") =>
        LET name == IF GetText(env, "SWIFT_CXX_HEADER_NAME")
                    THEN env["SWIFT_CXX_HEADER_NAME"]
                    ELSE basename(TargetBase) \o "-Swift.h"
        IN  join(dirname(target[1]), name) \in Range(sideEffects)

----------------------------------------------------------------------------
(* swift_scan_func, lines 53-79 *)

Chars(s) == { At(s, i) : i \in 1..Len(s) }

\* \w
WordChars ==
    Chars("abcdefghijklmnopqrstuvwxyzABCDEFGHIJKLMNOPQRSTUVWXYZ0123456789_")

\* the index of the last character of the run of characters of class cs that
\* starts at i (i - 1 when s[i] is not in cs)
RECURSIVE RunEnd(_, _, _)
RunEnd(s, i, cs) ==
    IF i <= Len(s) /\ At(s, i) \in cs THEN RunEnd(s, i + 1, cs) ELSE i - 1

\* import_re = ^\s*import\s+(\w+) with re.MULTILINE, tried at position p:
\* ^ holds at the start of the text and after each newline; each of \s*, \s+
\* and \w+ takes its whole run, since what follows it cannot start inside it.
ImportAt(s, p) ==
    LET a == RunEnd(s, p, Whitespace)
        kw == "import"
        b == RunEnd(s, a + Len(kw) + 1, Whitespace)
        c == RunEnd(s, b + 1, WordChars)
    IN  IF /\ (p = 1 \/ At(s, p - 1) = "\n")
           /\ a + Len(kw) <= Len(s)
           /\ SubSeq(s, a + 1, a + Len(kw)) = kw
           /\ b >= a + Len(kw) + 1
           /\ c >= b + 1
        THEN [ok |-> TRUE, name |-> SubSeq(s, b + 1, c), end |-> c]
        ELSE [ok |-> FALSE, name |-> "", end |-> p]

\* [m.group(1) for m in import_re.finditer(contents)], scanning from p
RECURSIVE FindImports(_, _)
FindImports(s, p) ==
    IF p > Len(s) THEN << >>
    ELSE LET m == ImportAt(s, p)
         IN  IF m.ok THEN <<m.name>> \o FindImports(s, m.end + 1)
             ELSE FindImports(s, p + 1)

\* line 65
SystemModules == {"Foundation", "UIKit", "SwiftUI", "Darwin", "Glibc"}

\* lines 73-77 without the break: every directory that holds the descriptor
ResolveAll(imp, dirs, exists) ==
    SelectSeq([i \in 1..Len(dirs) |-> File(join(dirs[i], imp \o ".swiftmodule"))],
              LAMBDA f : f \in exists)

\* lines 73-77: the descriptor of imp in the first directory that holds one
Resolve(imp, dirs, exists) ==
    LET hits == { i \in 1..Len(dirs) :
                    File(join(dirs[i], imp \o ".swiftmodule")) \in exists }
    IN  IF hits = {} THEN << >>
        ELSE <<File(join(dirs[CHOOSE i \in hits : \A j \in hits : i <= j],
                         imp \o ".swiftmodule"))>>

\* lines 70-77
RECURSIVE Deps(_, _, _)
Deps(imports, dirs, exists) ==
    IF imports = << >> THEN << >>
    ELSE Resolve(Head(imports), dirs, exists) \o Deps(Tail(imports), dirs, exists)

\* The names import_re captured and the list the function returns.
swift_scan_func(contents, dirs, exists) ==
    LET names == FindImports(contents, 1)
        imports == SelectSeq(names, LAMBDA m : m \notin SystemModules)
    IN  [matched |-> names, deps |-> Deps(imports, dirs, exists)]

----------------------------------------------------------------------------
(* SpecScan: swift_scan_func(node, env, path) *)

MaxLines == 3

SourceLines ==
    { "import Foo", "  import Bar", "import Foundation", "// import Bar",
      "/*", "*/", "\"\"\"", "let n = 1" }

Modules == {"Foo", "Bar", "Foundation"}

Dirs == {"mods", "ext/lib"}

\* the module descriptors that may exist on disk
Descriptors ==
    { "mods/Foo.swiftmodule", "ext/lib/Foo.swiftmodule",
      "ext/lib/Bar.swiftmodule", "mods/Foundation.swiftmodule" }

\* the tuples FindPathDirs('SWIFTMODULEPATH') can give over Dirs
SearchPaths ==
    {<< >>} \cup { <<d>> : d \in Dirs }
    \cup { q \in Dirs \X Dirs : q[1] # q[2] }

\* node.get_text_contents() of a file with these lines
RECURSIVE Contents(_)
Contents(ls) ==
    IF ls = << >> THEN "" ELSE Head(ls) \o "\n" \o Contents(Tail(ls))

InitScan ==
    /\ pc = "edit"
    /\ lines = << >>
    /\ path \in SearchPaths
    /\ files \in SUBSET Descriptors
    /\ matched = << >>
    /\ deps = << >>
    /\ env = << >>
    /\ IdleGen
    /\ IdleEmit

\* the source file gets one more line
WriteLine ==
    /\ pc = "edit"
    /\ Len(lines) < MaxLines
    /\ \E l \in SourceLines : lines' = Append(lines, l)
    /\ UNCHANGED <<pc, env, path, files, matched, deps, genVars, emitVars>>

\* SCons scans the file
Scan ==
    /\ pc = "edit"
    /\ LET r == swift_scan_func(Contents(lines), path, files)
       IN  /\ matched' = r.matched
           /\ deps' = r.deps
    /\ pc' = "scanned"
    /\ UNCHANGED <<env, lines, path, files, genVars, emitVars>>

NextScan == WriteLine \/ Scan

SpecScan == InitScan /\ [][NextScan]_vars

----------------------------------------------------------------------------
(* Properties of swift_scan_func, under SpecScan *)

Descriptor(d, m) == join(d, m \o ".swiftmodule")

\* d is the first directory of the search path that holds m's descriptor
FirstHolder(d, m) ==
    \E i \in 1..Len(path) :
        /\ path[i] = d
        /\ Descriptor(d, m) \in files
        /\ \A j \in 1..(i - 1) : Descriptor(path[j], m) \notin files

C6_NoDuplicateDeps ==
    pc = "scanned" =>
        \A i \in 1..Len(deps), j \in 1..Len(deps) : deps[i] = deps[j] => i = j

\* The module a source line of SourceLines imports when it is a statement.
Directive(l) ==
    CASE l = "import Foo" -> "Foo"
      [] l = "  import Bar" -> "Bar"
      [] l = "import Foundation" -> "Foundation"
      [] OTHER -> None

\* The lexical region after line l read in region r: a block comment runs
\* from a line "/*" to a line "*/", a multi-line string literal between two
\* lines of three double quotes.
Region(r, l) ==
    CASE r = "code" /\ l = "/*" -> "comment"
      [] r = "code" /\ l = "\"\"\"" -> "string"
      [] r = "comment" /\ l = "*/" -> "code"
      [] r = "string" /\ l = "\"\"\"" -> "code"
      [] OTHER -> r

\* the modules imported by the directives of ls that are statements
RECURSIVE Statements(_, _)
Statements(ls, r) ==
    IF ls = << >> THEN {}
    ELSE (IF r = "code" /\ Directive(Head(ls)) # None
          THEN {Directive(Head(ls))} ELSE {})
         \cup Statements(Tail(ls), Region(r, Head(ls)))

\* C7: the names the scanner extracts are exactly those of the import
\* directives that start a line of code; a directive inside a multi-line
\* string literal or a comment yields no dependency.
C7_ImportsOnlyFromCode ==
    pc = "scanned" =>
        /\ Range(matched) = Statements(lines, "code")
        /\ Range(deps) \subseteq
              { Descriptor(d, m) : d \in Dirs, m \in Statements(lines, "code") }

----------------------------------------------------------------------------
(* Command-line expansion of the generated variables *)

\* The decoration SCons' _concat applies, as _SWIFTMODULEFLAGS (line 185)
\* calls it: a prefix that ends in a space becomes a word of its own, any
\* other prefix and the suffix are glued to an entry that lacks them.
concat(prefix, items, suffix) ==
    LET Word(x) ==
            LET y == IF prefix # "" /\ ~EndsWith(prefix, " ") /\ ~StartsWith(x, prefix)
                     THEN prefix \o x ELSE x
                z == IF suffix # "" /\ ~StartsWith(suffix, " ") /\ ~EndsWith(y, suffix)
                     THEN y \o suffix ELSE y
            IN  (IF prefix # "" /\ EndsWith(prefix, " ")
                 THEN <<SubSeq(prefix, 1, Len(prefix) - 1)>> ELSE << >>)
                \o <<z>>
                \o (IF suffix # "" /\ StartsWith(suffix, " ")
                    THEN <<SubSeq(suffix, 2, Len(suffix))>> ELSE << >>)
        F[i \in 0..Len(items)] ==
            IF i = 0 THEN << >>
            ELSE F[i - 1] \o (IF items[i] = "" THEN << >> ELSE Word(items[i]))
    IN  F[Len(items)]

\* the words of a command line joined by single spaces
RECURSIVE JoinWords(_)
JoinWords(ws) ==
    IF ws = << >> THEN ""
    ELSE IF Len(ws) = 1 THEN ws[1]
    ELSE ws[1] \o " " \o JoinWords(Tail(ws))

\* $_SWIFTMODULEFLAGS in environment e (line 185)
SWIFTMODULEFLAGS(e) ==
    JoinWords(concat(e["SWIFTMODULEPREFIX"], e["SWIFTMODULEPATH"], e["SWIFTMODULESUFFIX"]))

\* the variables generate() sets to a list (CLVar) or has lists appended to
ListVars ==
    { "SWIFTFLAGS", "SWIFTPATH", "SWIFTMODULEPATH", "SWIFTIMPORTS", "SWIFTSHFLAGS",
      "SWIFTLIBFLAGS", "SWIFTMODULEFLAGS", "SWIFTEXEFLAGS", "SWIFTPMFLAGS",
      "LIBPATH", "LIBS", "SCANNERS" }

\* the variables generate() sets to a boolean or a set of builders
NonTextVars ==
    { "SWIFT_CXX_INTEROP", "SWIFT_EMIT_CXX_HEADER", "SWIFTWMO", "SWIFT_ASYNC_SUPPORT",
      "SWIFT_REGEX_SUPPORT", "SWIFT_STRICT_CONCURRENCY", "BUILDERS" }

NameStart == WordChars \ Digits

Keywords == {"and", "or", "not"}

\* The variable names a string references as SCons substitutes it: $NAME,
\* ${expression} (the names of the expression, and the references in its
\* string literals, which are substituted in turn); $$, $( and $) are not
\* references.  m is "text", "expr" (inside ${ }) or "lit" (inside a string
\* literal of an expression).
RECURSIVE RefsFrom(_, _, _)
RefsFrom(s, i, m) ==
    LET c == At(s, i)
        n == At(s, i + 1)
        w == RunEnd(s, i, WordChars)
        v == RunEnd(s, i + 1, WordChars)
        dollar == Find(s, "$", i)
        quote == Find(s, "\"", i)
    IN  IF i > Len(s) THEN {}
        ELSE IF m = "text" /\ c # "$"
             THEN (IF dollar = 0 THEN {} ELSE RefsFrom(s, dollar, m))
        ELSE IF m = "lit" /\ c \notin {"$", "\""}
             THEN (IF quote = 0 THEN {}
                   ELSE IF dollar = 0 \/ quote < dollar THEN RefsFrom(s, quote, m)
                   ELSE RefsFrom(s, dollar, m))
        ELSE IF m = "expr" /\ c = "}" THEN RefsFrom(s, i + 1, "text")
        ELSE IF m = "expr" /\ c = "\"" THEN RefsFrom(s, i + 1, "lit")
        ELSE IF m = "lit" /\ c = "\"" THEN RefsFrom(s, i + 1, "expr")
        ELSE IF m = "expr" /\ c \in NameStart
             THEN (IF SubSeq(s, i, w) \in Keywords \/ At(s, i - 1) = "." THEN {}
                   ELSE {SubSeq(s, i, w)})
                  \cup RefsFrom(s, w + 1, "expr")
        ELSE IF m # "expr" /\ c = "$" /\ n \in {"$", "(", ")"} THEN RefsFrom(s, i + 2, m)
        ELSE IF m = "text" /\ c = "$" /\ n = "{" THEN RefsFrom(s, i + 2, "expr")
        ELSE IF m # "expr" /\ c = "$" /\ n \in NameStart
             THEN {SubSeq(s, i + 1, v)} \cup RefsFrom(s, v + 1, m)
        ELSE RefsFrom(s, i + 1, m)

\* the names the value of variable k references in environment e
RefsOf(e, k) ==
    IF k \notin DOMAIN e \/ k \in NonTextVars THEN {}
    ELSE IF k \in ListVars
         THEN UNION { RefsFrom(e[k][i], 1, "text") : i \in 1..Len(e[k]) }
    ELSE RefsFrom(e[k], 1, "text")

\* the names referenced from the variables ks, directly or through the
\* values of the variables they reference
RECURSIVE Referenced(_, _)
Referenced(e, ks) ==
    LET more == ks \cup UNION { RefsOf(e, k) : k \in ks }
    IN  IF more = ks THEN ks ELSE Referenced(e, more)

CommandTemplates ==
    {"SWIFTCOM", "SWIFTSHCOM", "SWIFTLIBCOM", "SWIFTMODULECOM", "SWIFTEXECOM"}

\* a construction variable of this tool: SWIFT... or _SWIFT...
ToolVar(k) == StartsWith(k, "SWIFT") \/ StartsWith(k, "_SWIFT")

----------------------------------------------------------------------------
(* Properties of generate(), under SpecGen *)

\* variable k is as it was when generate() was called
Kept(k) ==
    /\ k \in DOMAIN env <=> k \in DOMAIN env0
    /\ k \in DOMAIN env => env[k] = env0[k]

VersionKeys ==
    { "SWIFTVERSION", "SWIFT_ASYNC_SUPPORT", "_SWIFT_ASYNC_FLAG",
      "SWIFT_REGEX_SUPPORT", "SWIFT_STRICT_CONCURRENCY", "_SWIFT_CONCURRENCY_FLAG" }

\* C8: no probe failure leaves generate() as an exception, and after a failed
\* probe the variables that probe would have set are as they were before:
\* SDKROOT for the SDK-path probe, LIBPATH and LIBS for the toolchain probe,
\* SWIFTVERSION and the version-conditioned flags for the version probe.
C8_ProbeFailuresAbsorbed ==
    /\ pc # "raised"
    /\ (pc \in {"platform", "done", "configured"} /\ sdkProbe \in Failures)
          => Kept("SDKROOT")
    /\ (pc \in {"platform", "done", "configured"} /\ toolProbe \in Failures)
          => (Kept("LIBPATH") /\ Kept("LIBS"))
    /\ (pc \in {"done", "configured"} /\ verProbe \in Failures)
          => \A k \in VersionKeys : Kept(k)

\* C8 witness: generate() completed on darwin although the SDK-path probe
\* timed out and the compiler was not found, with a SWIFTVERSION set before.
C8_Witness ==
    /\ pc = "done"
    /\ sdkProbe = "timeout"
    /\ verProbe = "missing"
    /\ "SWIFTVERSION" \in DOMAIN env0

\* C9: once generate() has completed, every variable of this tool that the
\* command templates reference, directly or through nested variables, has a
\* value in the environment.
C9_TemplateVarsDefaulted ==
    pc = "done" =>
        \A k \in Referenced(env, CommandTemplates) : ToolVar(k) => k \in DOMAIN env

\* C10: after generate() SWIFTMODULESUFFIX is the empty string, and the
\* module search path expands to '-I d' for each of its entries d.
C10_ModulePathPlainPrefix ==
    pc = "configured" =>
        /\ env["SWIFTMODULESUFFIX"] = ""
        /\ SWIFTMODULEFLAGS(env)
             = JoinWords([i \in 1..Len(env["SWIFTMODULEPATH"]) |->
                             "-I " \o env["SWIFTMODULEPATH"][i]])

====
